---------------------------- MODULE Spec2Model ----------------------------
(***************************************************************************)
(* Model of geomy (src/geomy/core.py, src/geomy/Graph.py): the polyhedral  *)
(* volume chain triangulate -> get_volume_tetra -> get_volume_hexa /       *)
(* get_volume, the shoelace area and the COO degree count.                 *)
(*                                                                         *)
(* Every function of the library is pure.  A behaviour is one call: the    *)
(* initial state holds the function called and its argument, the single    *)
(* step runs the function and stores what it returns or raises.            *)
(*                                                                         *)
(* Numbers.  numpy floats are modelled by exact rationals <<num, den>> in  *)
(* lowest terms with den > 0, so rounding is abstracted away; all inputs   *)
(* of the model are small integers and halves, on which the float          *)
(* operations of the code are exact.                                       *)
(* Arrays.  An (N, dim) array is a sequence of N rows, each a sequence of  *)
(* dim rationals.  Python indices are 0-based; row i of the code is        *)
(* element i+1 of the sequence.                                            *)
(***************************************************************************)
EXTENDS Integers, Sequences, FiniteSets, TLC

VARIABLES pc, call, args, result, centroid

vars == <<pc, call, args, result, centroid>>

---------------------------------------------------------------------------
(* Bounds of the model *)

MaxCoord == 1
MaxN == 4
MaxScale == 2
MaxOrder == 3
MaxEdges == 3

---------------------------------------------------------------------------
(* Exact arithmetic standing for the float operations of the code *)

Abs(n) == IF n < 0 THEN -n ELSE n

RECURSIVE GCD(_, _)
GCD(a, b) == IF b = 0 THEN a ELSE GCD(b, a % b)

Rat(n, d) ==
    LET s == IF d < 0 THEN -1 ELSE 1
        g == GCD(Abs(n), Abs(d))
    IN  <<(s * n) \div g, (s * d) \div g>>

F(n) == <<n, 1>>

RAdd(a, b) == Rat(a[1] * b[2] + b[1] * a[2], a[2] * b[2])
RSub(a, b) == Rat(a[1] * b[2] - b[1] * a[2], a[2] * b[2])
RMul(a, b) == Rat(a[1] * b[1], a[2] * b[2])
RDiv(a, b) == Rat(a[1] * b[2], a[2] * b[1])
RAbs(a) == <<Abs(a[1]), a[2]>>
RLess(a, b) == a[1] * b[2] < b[1] * a[2]

RECURSIVE RSum(_)
RSum(xs) == IF Len(xs) = 0 THEN F(0) ELSE RAdd(xs[1], RSum(Tail(xs)))

(* np.dot of two 1-D arrays *)
np_dot(x, y) == RSum([j \in 1..Len(x) |-> RMul(x[j], y[j])])

(* np.roll(x, -1): element j takes the value of element j+1, cyclically *)
np_roll_m1(x) == [j \in 1..Len(x) |-> x[(j % Len(x)) + 1]]

(* p - q for two points *)
VSub(p, q) == [j \in 1..Len(p) |-> RSub(p[j], q[j])]

(* points.shape of a non-empty array *)
shape(points) == <<Len(points), Len(points[1])>>

(* points[idx, :] for a tuple idx of 0-based row indices *)
Take(points, idx) == [j \in 1..Len(idx) |-> points[idx[j] + 1]]

(* points[:, c] for a 0-based column c *)
Column(points, c) == [i \in 1..Len(points) |-> points[i][c + 1]]

(* np.concatenate of a non-empty list of arrays along axis 0 *)
RECURSIVE np_concatenate(_)
np_concatenate(arrays) ==
    IF Len(arrays) = 0 THEN <<>>
    ELSE arrays[1] \o np_concatenate(Tail(arrays))

(* lexicographic order of rows, the order np.unique(axis = 0) sorts by *)
RECURSIVE LexLess(_, _)
LexLess(p, q) ==
    IF Len(p) = 0 THEN FALSE
    ELSE IF p[1] = q[1] THEN LexLess(Tail(p), Tail(q))
    ELSE RLess(p[1], q[1])

RECURSIVE SortRows(_)
SortRows(S) ==
    IF S = {} THEN <<>>
    ELSE LET m == CHOOSE x \in S : \A y \in S \ {x} : LexLess(x, y)
         IN  <<m>> \o SortRows(S \ {m})

(* what a call returns or raises *)
Ok(v) == [kind |-> "ok", value |-> v]
Err(k) == [kind |-> k, value |-> <<>>]

---------------------------------------------------------------------------
(* src/geomy/core.py *)

(* np.unique(a, axis = 0): the distinct rows, compared exactly, sorted *)
np_unique_nodedup(a) == a
np_unique(a) == SortRows({a[i] : i \in 1..Len(a)})

(* get_centroid: np.mean(points, axis = 0) of a non-empty array *)
get_centroid(points) ==
    [j \in 1..Len(points[1]) |->
        RDiv(RSum(Column(points, j - 1)), F(Len(points)))]

(* get_area: the assertion on the dimension, then the shoelace formula *)
get_area(points) ==
    IF shape(points)[2] # 2 THEN Err("AssertionError")
    ELSE LET x == Column(points, 0)
             y == Column(points, 1)
             shoelace == RSub(np_dot(x, np_roll_m1(y)), np_dot(y, np_roll_m1(x)))
         IN  Ok(RMul(<<1, 2>>, RAbs(shoelace)))

(* triangulate: [points[(0, i, i+1), :] for i in range(1, len(points)-1)] *)
triangulate_skipfirst(points) ==
    IF Len(points) < 4 THEN <<>>
    ELSE [k \in 1..(Len(points) - 3) |-> Take(points, <<0, k + 1, k + 2>>)]
triangulate_strip(points) ==
    IF Len(points) < 3 THEN <<>>
    ELSE [i \in 1..(Len(points) - 2) |-> Take(points, <<i - 1, i, i + 1>>)]
triangulate(points) ==
    IF Len(points) < 3 THEN <<>>
    ELSE [i \in 1..(Len(points) - 2) |-> Take(points, <<0, i, i + 1>>)]

(* np.linalg.det of a 3x3 matrix *)
det3_typo(m) ==
    LET P(a, b, c) == RMul(RMul(m[1][a], m[2][b]), m[3][c])
    IN  RSub(RAdd(RAdd(P(1, 2, 3), P(2, 3, 1)), P(3, 1, 2)),
             RAdd(RAdd(P(3, 2, 1), P(2, 1, 3)), RMul(m[1][1], m[2][3])))
det3(m) ==
    LET P(a, b, c) == RMul(RMul(m[1][a], m[2][b]), m[3][c])
    IN  RSub(RAdd(RAdd(P(1, 2, 3), P(2, 3, 1)), P(3, 1, 2)),
             RAdd(RAdd(P(3, 2, 1), P(2, 1, 3)), P(1, 3, 2)))

(* the determinant of the edge vectors from the first point (lines 90-92) *)
edge_det(points) ==
    LET p0 == points[1]
        mat == <<VSub(points[2], p0), VSub(points[3], p0), VSub(points[4], p0)>>
    IN  det3(mat)

(* get_volume_tetra *)
get_volume_tetra_noabs(points) ==
    IF shape(points) # <<4, 3>> THEN Err("AssertionError")
    ELSE Ok(RDiv(edge_det(points), F(6)))
get_volume_tetra(points) ==
    IF shape(points) # <<4, 3>> THEN Err("AssertionError")
    ELSE Ok(RDiv(RAbs(edge_det(points)), F(6)))

(* the volumes of a list of tetrahedra added up in order; the first       *)
(* tetrahedron that get_volume_tetra rejects ends the call                 *)
RECURSIVE SumTetra(_)
SumTetra(tetras) ==
    IF Len(tetras) = 0 THEN Ok(F(0))
    ELSE LET v == get_volume_tetra(tetras[1])
             rest == SumTetra(Tail(tetras))
         IN  IF v.kind # "ok" THEN v
             ELSE IF rest.kind # "ok" THEN rest
             ELSE Ok(RAdd(v.value, rest.value))

(* get_volume_hexa *)
tetra_indice_nocentre == <<<<0,1,3,4>>, <<1,2,3,6>>, <<1,4,5,6>>, <<3,4,6,7>>>>
tetra_indice == <<<<0,1,3,4>>, <<1,2,3,6>>, <<1,4,5,6>>, <<3,4,6,7>>, <<1,3,4,6>>>>

get_volume_hexa_noassert(points) ==
    IF Len(points) < 8 THEN Err("IndexError")
    ELSE SumTetra([t \in 1..Len(tetra_indice) |-> Take(points, tetra_indice[t])])
get_volume_hexa(points) ==
    IF shape(points) # <<8, 3>> THEN Err("AssertionError")
    ELSE SumTetra([t \in 1..Len(tetra_indice) |-> Take(points, tetra_indice[t])])

(* get_volume, line 139: np.concatenate raises ValueError on an empty     *)
(* list and on facets of different dimensions                              *)
ConcatFails(facets) ==
    \/ Len(facets) = 0
    \/ \E i, j \in 1..Len(facets) : Len(facets[i][1]) # Len(facets[j][1])

ReferenceCentroid(facets) == get_centroid(np_unique(np_concatenate(facets)))

(* get_volume, lines 141-144: the tetrahedra of the nested loops in order *)
RECURSIVE FacetTetras(_, _)
FacetTetras(facets, c) ==
    IF Len(facets) = 0 THEN <<>>
    ELSE LET triangles == triangulate(facets[1])
         IN  [t \in 1..Len(triangles) |-> <<c>> \o triangles[t]]
             \o FacetTetras(Tail(facets), c)

get_volume(facets) ==
    IF ConcatFails(facets) THEN Err("ValueError")
    ELSE SumTetra(FacetTetras(facets, ReferenceCentroid(facets)))

---------------------------------------------------------------------------
(* src/geomy/Graph.py *)

(* np.where(mask) with one argument: a tuple holding, for each dimension  *)
(* of mask, the array of the 0-based indices where mask is true; mask is  *)
(* 1-D here, so the tuple has one element                                  *)
RECURSIVE TrueIndices(_, _)
TrueIndices(mask, j) ==
    IF j > Len(mask) THEN <<>>
    ELSE (IF mask[j] THEN <<j - 1>> ELSE <<>>) \o TrueIndices(mask, j + 1)

np_where(mask) == <<TrueIndices(mask, 1)>>

(* get_degree_coo: len(np.where(adjmat[0] == i)) for i in range(order) *)
get_degree_coo(adjmat, order) ==
    [n \in 1..order |->
        Len(np_where([j \in 1..Len(adjmat[1]) |-> adjmat[1][j] = n - 1]))]

---------------------------------------------------------------------------
(* The arguments of the calls *)

Coords == {F(c) : c \in 0..MaxCoord}
Pt2 == {<<x, y>> : x \in Coords, y \in Coords}
Pt3 == {<<x, y, z>> : x \in Coords, y \in Coords, z \in Coords}

(* the unit cube of src/test.py *)
UnitCube ==
    << <<F(0), F(0), F(0)>>, <<F(1), F(0), F(0)>>, <<F(1), F(1), F(0)>>,
       <<F(0), F(1), F(0)>>, <<F(0), F(0), F(1)>>, <<F(1), F(0), F(1)>>,
       <<F(1), F(1), F(1)>>, <<F(0), F(1), F(1)>> >>

(* an array of the wrong shape made from a well-formed one *)
Shapes == {"full", "short", "long", "flat"}
Flat(points) == [i \in 1..Len(points) |-> SubSeq(points[i], 1, 2)]
Reshape(points, how) ==
    CASE how = "full" -> points
      [] how = "short" -> SubSeq(points, 1, Len(points) - 1)
      [] how = "long" -> points \o <<points[1]>>
      [] how = "flat" -> Flat(points)

(* get_volume: the facets of the unit cube, of a corner tetrahedron and   *)
(* of square pyramids, each wound counter-clockwise seen from outside      *)
CubeFacetIdx ==
    << <<0,3,2,1>>, <<4,5,6,7>>, <<0,1,5,4>>, <<3,7,6,2>>, <<0,4,7,3>>, <<1,2,6,5>> >>
CubeFacets == [f \in 1..6 |-> Take(UnitCube, CubeFacetIdx[f])]

CornerFacetIdx == << <<0,3,1>>, <<0,1,4>>, <<0,4,3>>, <<1,3,4>> >>
CornerFacets == [f \in 1..4 |-> Take(UnitCube, CornerFacetIdx[f])]

PyramidFacets(apex) ==
    LET b == UnitCube
    IN  << <<b[1], b[4], b[3], b[2]>>, <<b[1], b[2], apex>>, <<b[2], b[3], apex>>,
           <<b[3], b[4], apex>>, <<b[4], b[1], apex>> >>

Polyhedra ==
    {CubeFacets, CornerFacets}
        \cup {PyramidFacets(a) : a \in {p \in Pt3 : p[3] # F(0)}}

RECURSIVE Keep(_, _, _)
Keep(facets, kept, i) ==
    IF i > Len(facets) THEN <<>>
    ELSE (IF i \in kept THEN <<facets[i]>> ELSE <<>>) \o Keep(facets, kept, i + 1)

FacetDefects == {"none", "edge", "flat", "mixed"}
WithDefect(facets, how) ==
    CASE how = "none" -> facets
      [] how = "edge" -> facets \o << <<UnitCube[1], UnitCube[2]>> >>
      [] how = "flat" -> [f \in 1..Len(facets) |-> Flat(facets[f])]
      [] how = "mixed" -> facets \o <<Flat(CornerFacets[1])>>

---------------------------------------------------------------------------
(* One call *)

Pending == pc = "called" /\ result = Err("pending") /\ centroid = <<>>

(* get_volume_tetra: four distinct grid points in lexicographic order    *)
(* (the claims about reorderings quantify over the 24 orders themselves),  *)
(* as they are or with the shape spoilt                                    *)
SortedPt3 == SortRows(Pt3)
InitTetra ==
    /\ Pending /\ call = "get_volume_tetra"
    /\ \E a, b, c, d \in 1..Len(SortedPt3), how \in Shapes :
         /\ a < b /\ b < c /\ c < d
         /\ args = Reshape(<<SortedPt3[a], SortedPt3[b], SortedPt3[c], SortedPt3[d]>>, how)

(* get_volume_hexa: the unit cube with one vertex moved to a grid point *)
InitHexa ==
    /\ Pending /\ call = "get_volume_hexa"
    /\ \E i \in 1..8, g \in Pt3, how \in Shapes :
         args = Reshape([UnitCube EXCEPT ![i] = g], how)

(* get_volume: any sublist of the facets of a polyhedron, as it is or     *)
(* with a 2-vertex facet appended, flattened to 2-D, or mixed with a 2-D   *)
(* facet                                                                   *)
InitVolume ==
    /\ Pending /\ call = "get_volume"
    /\ \E P \in Polyhedra, kept \in SUBSET (1..6), how \in FacetDefects :
         args = WithDefect(Keep(P, kept, 1), how)

(* triangulate: every 2-D polygon of up to MaxN grid points, and the 3-D  *)
(* facets of the polyhedra                                                 *)
InitTriangulate ==
    /\ Pending /\ call = "triangulate"
    /\ \/ \E n \in 0..MaxN : args \in [1..n -> Pt2]
       \/ \E P \in Polyhedra : \E f \in 1..Len(P) : args = P[f]

(* get_degree_coo: a COO matrix of up to MaxEdges entries over the nodes  *)
(* 0..order-1 (row 0 the sources, row 1 the targets), and order            *)
InitDegree ==
    /\ Pending /\ call = "get_degree_coo"
    /\ \E n \in 0..MaxEdges, order \in 0..MaxOrder :
         \E es \in [1..n -> (0..(order - 1)) \X (0..(order - 1))] :
            args = << <<[e \in 1..n |-> es[e][1]], [e \in 1..n |-> es[e][2]]>>, order >>

Call_get_volume_tetra ==
    /\ pc = "called" /\ call = "get_volume_tetra"
    /\ result' = get_volume_tetra(args)
    /\ pc' = "returned"
    /\ UNCHANGED <<call, args, centroid>>

Call_get_volume_hexa ==
    /\ pc = "called" /\ call = "get_volume_hexa"
    /\ result' = get_volume_hexa(args)
    /\ pc' = "returned"
    /\ UNCHANGED <<call, args, centroid>>

Call_get_volume ==
    /\ pc = "called" /\ call = "get_volume"
    /\ centroid' = IF ConcatFails(args) THEN <<>> ELSE ReferenceCentroid(args)
    /\ result' = get_volume(args)
    /\ pc' = "returned"
    /\ UNCHANGED <<call, args>>

Call_triangulate ==
    /\ pc = "called" /\ call = "triangulate"
    /\ result' = Ok(triangulate(args))
    /\ pc' = "returned"
    /\ UNCHANGED <<call, args, centroid>>

Call_get_degree_coo ==
    /\ pc = "called" /\ call = "get_degree_coo"
    /\ result' = Ok(get_degree_coo(args[1], args[2]))
    /\ pc' = "returned"
    /\ UNCHANGED <<call, args, centroid>>

Init ==
    \/ InitTetra
    \/ InitHexa
    \/ InitVolume
    \/ InitTriangulate
    \/ InitDegree

Next ==
    \/ Call_get_volume_tetra
    \/ Call_get_volume_hexa
    \/ Call_get_volume
    \/ Call_triangulate
    \/ Call_get_degree_coo

Spec == Init /\ [][Next]_vars

(* the calls of one function each *)
SpecTetra == InitTetra /\ [][Call_get_volume_tetra]_vars
SpecHexa == InitHexa /\ [][Call_get_volume_hexa]_vars
SpecVolume == InitVolume /\ [][Call_get_volume]_vars
SpecTriangulate == InitTriangulate /\ [][Call_triangulate]_vars
SpecDegree == InitDegree /\ [][Call_get_degree_coo]_vars

(* the calls of the three volume functions *)
InitVolumes == InitTetra \/ InitHexa \/ InitVolume
NextVolumes == Call_get_volume_tetra \/ Call_get_volume_hexa \/ Call_get_volume
SpecVolumes == InitVolumes /\ [][NextVolumes]_vars

Returned(f) == pc = "returned" /\ call = f

---------------------------------------------------------------------------
(* Properties *)

(* C1: get_volume_hexa of the unit cube of src/test.py returns 1: its     *)
(* five tetrahedra (0,1,3,4), (1,2,3,6), (1,4,5,6), (3,4,6,7), (1,3,4,6)   *)
(* have the volumes 1/6, 1/6, 1/6, 1/6, 1/3, which add up to 1.            *)
C1_UnitCubeHexaVolume ==
    (Returned("get_volume_hexa") /\ args = UnitCube) =>
        /\ result = Ok(F(1))
        /\ tetra_indice =
             << <<0,1,3,4>>, <<1,2,3,6>>, <<1,4,5,6>>, <<3,4,6,7>>, <<1,3,4,6>> >>
        /\ [t \in 1..5 |-> get_volume_tetra(Take(args, tetra_indice[t])).value]
             = << <<1, 6>>, <<1, 6>>, <<1, 6>>, <<1, 6>>, <<1, 3>> >>

C1_Witness ==
    Returned("get_volume_hexa") /\ args = UnitCube /\ result.kind = "ok"

(* C2: get_volume of the six outward-wound unit-square facets of the unit *)
(* cube returns 1: the reference centroid is (1/2, 1/2, 1/2) and the 12    *)
(* tetrahedra of the centroid and the fan triangles add up to 1.           *)
C2_UnitCubeFacetVolume ==
    (Returned("get_volume") /\ args = CubeFacets) =>
        /\ result = Ok(F(1))
        /\ centroid = << <<1, 2>>, <<1, 2>>, <<1, 2>> >>
        /\ Len(FacetTetras(args, centroid)) = 12

C2_Witness ==
    /\ Returned("get_volume") /\ args = CubeFacets /\ result.kind = "ok"
    /\ \A f \in 1..6 : Len(args[f]) = 4

(* C3: for N >= 3 vertices triangulate returns N-2 triangles, triangle k  *)
(* (k = 0..N-3) being (vertex 0, vertex k+1, vertex k+2); vertex 0 is in   *)
(* every triangle and the triangles use exactly the indices 0..N-1.        *)
C3_FanTriangles ==
    (Returned("triangulate") /\ Len(args) >= 3) =>
        LET N == Len(args)
            idx == triangulate([i \in 1..N |-> i - 1])
        IN  /\ result.kind = "ok"
            /\ Len(result.value) = N - 2
            /\ \A k \in 0..(N - 3) :
                 result.value[k + 1] = <<args[1], args[k + 2], args[k + 3]>>
            /\ Len(idx) = N - 2
            /\ \A k \in 0..(N - 3) : idx[k + 1] = <<0, k + 1, k + 2>>
            /\ \A k \in 1..Len(idx) : 0 \in {idx[k][j] : j \in 1..3}
            /\ UNION {{idx[k][j] : j \in 1..3} : k \in 1..Len(idx)} = 0..(N - 1)

C3_Witness ==
    Returned("triangulate") /\ Len(args) = 4 /\ Len(result.value) = 2

(* C4: get_volume_hexa of an array whose point count is not 8 fails (the  *)
(* shape assertion raises, the code's form of InvalidShape) and returns no *)
(* volume.                                                                 *)
C4_HexaRejectsWrongCount ==
    (Returned("get_volume_hexa") /\ Len(args) # 8) =>
        result = Err("AssertionError")

C4_Witness ==
    Returned("get_volume_hexa") /\ Len(args) = 9 /\ result.kind = "AssertionError"

(* C5: get_volume fails, and returns no number, for an empty facet set,   *)
(* for a facet set with a facet of fewer than 3 vertices, and for facets   *)
(* that are not 3-D.                                                       *)
MalformedFacets(facets) ==
    \/ Len(facets) = 0
    \/ \E f \in 1..Len(facets) : Len(facets[f]) < 3
    \/ \E f \in 1..Len(facets) : Len(facets[f][1]) # 3

C5_VolumeRejectsMalformed ==
    (Returned("get_volume") /\ MalformedFacets(args)) => result.kind # "ok"

(* C6: get_volume_tetra of 4 points in 3-D returns |det| / 6, det being   *)
(* the determinant of the edge vectors from the first point (written here  *)
(* as the triple product a . (b x c)); the result is the same for all 24   *)
(* orders of the points, an even permutation keeping det and an odd one    *)
(* negating it.                                                            *)
Perms4 == {q \in [1..4 -> 1..4] : \A i, j \in 1..4 : q[i] = q[j] => i = j}
Inversions(q) == Cardinality({ij \in (1..4) \X (1..4) : ij[1] < ij[2] /\ q[ij[1]] > q[ij[2]]})
Sign(q) == IF Inversions(q) % 2 = 0 THEN 1 ELSE -1
Permuted(points, q) == [i \in 1..4 |-> points[q[i]]]

TripleProduct(points) ==
    LET a == VSub(points[2], points[1])
        b == VSub(points[3], points[1])
        c == VSub(points[4], points[1])
        bxc == << RSub(RMul(b[2], c[3]), RMul(b[3], c[2])),
                  RSub(RMul(b[3], c[1]), RMul(b[1], c[3])),
                  RSub(RMul(b[1], c[2]), RMul(b[2], c[1])) >>
    IN  np_dot(a, bxc)

C6_TetraVolumePermutation ==
    (Returned("get_volume_tetra") /\ shape(args) = <<4, 3>>) =>
        /\ result = Ok(RDiv(RAbs(TripleProduct(args)), F(6)))
        /\ \A q \in Perms4 :
             /\ get_volume_tetra(Permuted(args, q)) = result
             /\ edge_det(Permuted(args, q)) = RMul(F(Sign(q)), edge_det(args))

C6_Witness ==
    /\ Returned("get_volume_tetra") /\ shape(args) = <<4, 3>>
    /\ result = Ok(<<1, 6>>)
    /\ \E q \in Perms4 :
         Sign(q) = -1 /\ edge_det(Permuted(args, q)) = RMul(F(-1), edge_det(args))

(* C7: scaling every vertex of a valid input of get_volume_tetra,         *)
(* get_volume_hexa or get_volume by s scales the volume by s^3.            *)
Scales == {Rat(n, d) : n \in (-MaxScale)..MaxScale, d \in 1..MaxScale}
ScaledPoints(points, s) ==
    [i \in 1..Len(points) |-> [j \in 1..Len(points[i]) |-> RMul(s, points[i][j])]]
ScaledFacets(facets, s) == [f \in 1..Len(facets) |-> ScaledPoints(facets[f], s)]
ScaledCall(s) ==
    CASE call = "get_volume_tetra" -> get_volume_tetra(ScaledPoints(args, s))
      [] call = "get_volume_hexa" -> get_volume_hexa(ScaledPoints(args, s))
      [] call = "get_volume" -> get_volume(ScaledFacets(args, s))
VolumeReturned ==
    /\ pc = "returned"
    /\ call \in {"get_volume_tetra", "get_volume_hexa", "get_volume"}
    /\ result.kind = "ok"

C7_ScalesBySCubed ==
    VolumeReturned =>
        \A s \in Scales :
            ScaledCall(s) = Ok(RMul(RMul(RMul(s, s), s), result.value))

(* C7 as amended: the volume scales by |s|^3. *)
C7_ScalesByAbsSCubed ==
    VolumeReturned =>
        \A s \in Scales :
            ScaledCall(s) = Ok(RMul(RAbs(RMul(RMul(s, s), s)), result.value))

C7_Witness ==
    /\ VolumeReturned /\ call = "get_volume" /\ args = CubeFacets
    /\ F(-2) \in Scales
    /\ get_volume(ScaledFacets(args, F(-2))) = Ok(F(8))

(* C8: for a convex 2-D polygon of N >= 3 counter-clockwise vertices the  *)
(* areas (get_area) of the triangles triangulate returns add up to the     *)
(* get_area of the polygon.                                                *)
Cross(o, p, q) ==
    RSub(RMul(RSub(p[1], o[1]), RSub(q[2], o[2])),
         RMul(RSub(p[2], o[2]), RSub(q[1], o[1])))
IsConvexCCW(points) ==
    LET N == Len(points)
    IN  \A i, k \in 1..N :
            ~RLess(Cross(points[i], points[(i % N) + 1], points[k]), F(0))

C8_TriangleAreasSumToPolygon ==
    (/\ Returned("triangulate") /\ Len(args) >= 3
     /\ shape(args)[2] = 2 /\ IsConvexCCW(args)) =>
        RSum([t \in 1..Len(result.value) |-> get_area(result.value[t]).value])
            = get_area(args).value

C8_Witness ==
    /\ Returned("triangulate") /\ Len(args) = 4
    /\ shape(args)[2] = 2 /\ IsConvexCCW(args)
    /\ get_area(args) = Ok(F(1))
    /\ \A t \in 1..2 : get_area(result.value[t]) = Ok(<<1, 2>>)

(* C9: for a COO matrix of an undirected graph stored in full and a node  *)
(* count order, get_degree_coo returns an array of length order whose      *)
(* entry i is the number of entries of adjmat[0] equal to i.               *)
StoredInFull(adjmat) ==
    \A e \in 1..Len(adjmat[1]) :
        \E r \in 1..Len(adjmat[1]) :
            adjmat[1][r] = adjmat[2][e] /\ adjmat[2][r] = adjmat[1][e]

C9_DegreeCountsEntries ==
    (Returned("get_degree_coo") /\ StoredInFull(args[1])) =>
        /\ Len(result.value) = args[2]
        /\ \A n \in 0..(args[2] - 1) :
             result.value[n + 1] =
                Cardinality({e \in 1..Len(args[1][1]) : args[1][1][e] = n})

(* C10: the reference centroid of get_volume, the apex of every           *)
(* tetrahedron, is the mean of the set of distinct vertices of the facets: *)
(* a vertex is weighted once however many facets list it.                  *)
RECURSIVE SetSum(_, _)
SetSum(S, j) ==
    IF S = {} THEN F(0)
    ELSE LET v == CHOOSE x \in S : TRUE
         IN  RAdd(v[j], SetSum(S \ {v}, j))
MeanOfSet(S, dim) == [j \in 1..dim |-> RDiv(SetSum(S, j), F(Cardinality(S)))]
VertexSet(facets) == UNION {{facets[f][i] : i \in 1..Len(facets[f])} : f \in 1..Len(facets)}

C10_CentroidOfDistinctVertices ==
    (Returned("get_volume") /\ ~ConcatFails(args)) =>
        /\ centroid = MeanOfSet(VertexSet(args), Len(args[1][1]))
        /\ \A f \in 1..Len(args) : ReferenceCentroid(args \o <<args[f]>>) = centroid
        /\ LET tetras == FacetTetras(args, centroid)
           IN  \A t \in 1..Len(tetras) : tetras[t][1] = centroid

C10_Witness ==
    /\ Returned("get_volume") /\ ~ConcatFails(args) /\ result.kind = "ok"
    /\ get_centroid(np_concatenate(args)) # centroid
    /\ Len(FacetTetras(args, centroid)) > 0

=============================================================================
